---------------------------- MODULE Spec2Model ----------------------------
(***************************************************************************)
(* A model of video-preview-image (src/main.go): the command-line pipeline *)
(* main() = parseFlags -> ensureExecutables -> probeVideo ->               *)
(* inferCellHeight -> sampleTimestamps -> captureFrame/scaleToFit loop ->  *)
(* composeGrid -> saveImage, and its pure functions.                       *)
(*                                                                         *)
(* float64 arithmetic is modelled bit for bit for the operations the code  *)
(* performs (a quotient of two integers, a product with an integer,        *)
(* math.Round, int()): a positive float64 is a record [e, m] whose value   *)
(* is (1 + m[1]/2^13 + m[2]/2^26 + m[3]/2^39 + m[4]/2^52) * 2^e, the 52    *)
(* stored fraction bits held as four 13-bit limbs (normal numbers only:    *)
(* the model's magnitudes stay far from the subnormal and overflow         *)
(* ranges), and every result is rounded to nearest, ties to even.          *)
(***************************************************************************)
EXTENDS Integers, Sequences, FiniteSets, TLC

\* float64 stores 52 fraction bits: four limbs of 13 bits.
LimbBits == 13

Limb == 8192

-----------------------------------------------------------------------------
(* float64 helpers *)

RECURSIVE Pow2(_)
Pow2(n) == IF n = 0 THEN 1 ELSE 2 * Pow2(n - 1)

Abs(x) == IF x < 0 THEN -x ELSE x

\* The exponent e with 2^e <= a/b < 2^(e+1), for integers a, b > 0.
RECURSIVE QuotExpUp(_, _, _)
QuotExpUp(a, b, e) == IF a >= 2 * b THEN QuotExpUp(a, 2 * b, e + 1) ELSE e

RECURSIVE QuotExpDown(_, _, _)
QuotExpDown(a, b, e) == IF a < b THEN QuotExpDown(2 * a, b, e - 1) ELSE e

QuotExp(a, b) == IF a >= b THEN QuotExpUp(a, b, 0) ELSE QuotExpDown(a, b, 0)

\* The number of binary digits of n > 0.
RECURSIVE BitLen(_)
BitLen(n) == IF n = 0 THEN 0 ELSE 1 + BitLen(n \div 2)

\* Round to nearest, ties to even: m holds the kept fraction, rnd the first
\* dropped bit, sticky whether any later dropped bit is set.
RoundNearestEven(e, m, rnd, sticky) ==
    IF rnd = 1 /\ (sticky \/ m[4] % 2 = 1)
    THEN LET s4 == m[4] + 1
             s3 == m[3] + (s4 \div Limb)
             s2 == m[2] + (s3 \div Limb)
             s1 == m[1] + (s2 \div Limb)
         IN  IF s1 \div Limb = 1
             THEN [e |-> e + 1, m |-> <<0, 0, 0, 0>>]
             ELSE [e |-> e, m |-> <<s1, s2 % Limb, s3 % Limb, s4 % Limb>>]
    ELSE [e |-> e, m |-> m]

\* The float64 0 (the only value without the implicit leading 1).
FZero == [e |-> -1075, m |-> <<0, 0, 0, 0>>]

\* float64(a) / float64(b) for integers a >= 0, b > 0 (both exactly
\* representable): long division, 13 quotient bits at a time after the
\* leading 1.
FDivInt(a, b) ==
    IF a = 0 THEN FZero ELSE
    LET e   == QuotExp(a, b)
        a1  == IF e < 0 THEN a * Pow2(-e) ELSE a
        b1  == IF e > 0 THEN b * Pow2(e) ELSE b
        r0  == a1 - b1
        r1  == (r0 * Limb) % b1
        r2  == (r1 * Limb) % b1
        r3  == (r2 * Limb) % b1
        r4  == (r3 * Limb) % b1
        m   == <<(r0 * Limb) \div b1, (r1 * Limb) \div b1,
                 (r2 * Limb) \div b1, (r3 * Limb) \div b1>>
        rnd == IF 2 * r4 >= b1 THEN 1 ELSE 0
    IN  RoundNearestEven(e, m, rnd, 2 * r4 - rnd * b1 # 0)

\* float64(n) for an integer n >= 0.
FFromInt(n) == FDivInt(n, 1)

\* f * float64(k) for a float64 f >= 0 and an integer k > 0: the exact
\* product (schoolbook from the last limb, with carry) rounded once.
FMulInt(f, k) ==
    IF f = FZero THEN FZero ELSE
    LET t4  == f.m[4] * k
        t3  == f.m[3] * k + (t4 \div Limb)
        t2  == f.m[2] * k + (t3 \div Limb)
        t1  == f.m[1] * k + (t2 \div Limb)
        top == k + (t1 \div Limb)
        p   == <<top, t1 % Limb, t2 % Limb, t3 % Limb, t4 % Limb>>
        s   == BitLen(top) - 1
        lo  == Pow2(s)
        hi  == Limb \div lo
        m   == <<(p[1] % lo) * hi + (p[2] \div lo), (p[2] % lo) * hi + (p[3] \div lo),
                 (p[3] % lo) * hi + (p[4] \div lo), (p[4] % lo) * hi + (p[5] \div lo)>>
        out == p[5] % lo
        rnd == IF s > 0 THEN out \div (lo \div 2) ELSE 0
    IN  RoundNearestEven(f.e + s, m, rnd, s > 0 /\ out % (lo \div 2) # 0)

\* f < g for float64 values >= 0.
FLess(f, g) ==
    \/ f.e < g.e
    \/ /\ f.e = g.e
       /\ \E i \in 1..4 : /\ f.m[i] < g.m[i]
                          /\ \A j \in 1..(i - 1) : f.m[j] = g.m[j]

\* math.Min of two float64 values >= 0.
FMin(f, g) == IF FLess(g, f) THEN g ELSE f

\* int(f): truncation, for a float64 0 <= f < 2^13.
FTrunc(f) ==
    IF f.e < 0 THEN 0 ELSE Pow2(f.e) + (f.m[1] \div Pow2(LimbBits - f.e))

\* int(math.Round(f)): nearest integer, halves away from zero, for a float64
\* 0 <= f < 2^12.
FRound(f) ==
    IF f.e < -1 THEN 0
    ELSE IF f.e = -1 THEN 1
    ELSE FTrunc(f) + ((f.m[1] \div Pow2(LimbBits - f.e - 1)) % 2)

-----------------------------------------------------------------------------
(* Go integer arithmetic and image.Rectangle *)

\* A division that rounds down, as in languages whose integer division floors.
FloorDiv(a, b) == a \div b

\* Go's / on ints truncates toward zero (TLA+'s \div rounds down).
GoDiv(a, b) == IF (a >= 0) = (b > 0) THEN Abs(a) \div Abs(b) ELSE -(Abs(a) \div Abs(b))

\* Go's % on ints: the remainder of the truncated division.
GoMod(a, b) == a - b * GoDiv(a, b)

Min2(a, b) == IF a < b THEN a ELSE b

Max2(a, b) == IF a > b THEN a ELSE b

\* image.Rect(x0, y0, x1, y1): the coordinates are swapped where needed so
\* that the rectangle is well formed.
Rect(x0, y0, x1, y1) ==
    [x0 |-> Min2(x0, x1), y0 |-> Min2(y0, y1), x1 |-> Max2(x0, x1), y1 |-> Max2(y0, y1)]

Dx(r) == r.x1 - r.x0

Dy(r) == r.y1 - r.y0

\* A nil image.Image, and an image of w x h pixels with bounds (0,0)-(w,h).
Nil == [nil |-> TRUE, w |-> 0, h |-> 0]

Image(w, h) == [nil |-> FALSE, w |-> w, h |-> h]

\* The rectangle of a frame that composeGrid skipped (nothing is drawn).
NoRect == Rect(0, 0, 0, 0)

-----------------------------------------------------------------------------
(* The pure functions of main.go *)

\* strconv.ParseUint(pair, 16, 8) succeeds exactly on two hex digits.
HexDigits ==
    {"0", "1", "2", "3", "4", "5", "6", "7", "8", "9",
     "a", "b", "c", "d", "e", "f", "A", "B", "C", "D", "E", "F"}

\* parseHexColor reports an error unless, after the leading "#" is trimmed,
\* the value is 6 or 8 hex digits. value is a sequence of characters.
parseHexColor(value) ==
    LET hex == IF value # << >> /\ value[1] = "#" THEN Tail(value) ELSE value
    IN  IF Len(hex) \in {6, 8}
        THEN IF \A j \in 1..Len(hex) : hex[j] \in HexDigits
             THEN [err |-> "", alpha |-> Len(hex) = 8]
             ELSE [err |-> "parse background", alpha |-> FALSE]
        ELSE [err |-> "background format", alpha |-> FALSE]

\* parseFlags' checks, in the code's order: "" when the flags are accepted.
parseFlags(f) ==
    IF f.input = "" THEN "input required"
    ELSE IF f.rows <= 0 \/ f.cols <= 0 THEN "rows and cols must be positive"
    ELSE IF f.cellWidth <= 0 THEN "cell-width must be positive"
    ELSE IF f.margin < 0 THEN "margin must not be negative"
    ELSE IF f.jpegQuality < 1 \/ f.jpegQuality > 100 THEN "quality range is 1-100"
    ELSE parseHexColor(f.background).err

\* int(float64(cellWidth) * 9.0 / 16.0): the product and the quotient by 16
\* are exact, int() truncates.
FallbackHeight(cellWidth) == FTrunc(FDivInt(cellWidth * 9, 16))

inferCellHeight(cellWidth, videoWidth, videoHeight) ==
    IF videoWidth <= 0 \/ videoHeight <= 0
    THEN FallbackHeight(cellWidth)
    ELSE LET ratio  == FDivInt(videoHeight, videoWidth)
             height == FRound(FMulInt(ratio, cellWidth))
         IN  IF height <= 0 THEN FallbackHeight(cellWidth) ELSE height

\* sampleTimestamps dividing the duration into count (not count + 1) intervals.
sampleTimestampsCountIntervals(duration, count) ==
    IF count <= 0 THEN << >>
    ELSE IF count = 1 THEN <<FDivInt(duration, 2)>>
    ELSE LET interval == FDivInt(duration, count)
         IN  [k \in 1..count |-> FMulInt(interval, k)]

\* duration is a whole number of seconds > 0 (the model's probed durations).
sampleTimestamps(duration, count) ==
    IF count <= 0 THEN << >>
    ELSE IF count = 1 THEN <<FDivInt(duration, 2)>>
    ELSE LET interval == FDivInt(duration, count + 1)
         IN  [k \in 1..count |-> FMulInt(interval, k)]

\* The scale factor of scaleToFit. A decoded frame has width, height >= 1, so
\* the quotients are finite; with a bound <= 0 the minimum is <= 0 and the
\* guard replaces it by 1.
FitScale(width, height, maxWidth, maxHeight) ==
    IF maxWidth <= 0 \/ maxHeight <= 0
    THEN FFromInt(1)
    ELSE FMin(FDivInt(maxWidth, width), FDivInt(maxHeight, height))

scaleToFit(img, maxWidth, maxHeight) ==
    LET scale     == FitScale(img.w, img.h, maxWidth, maxHeight)
        newWidth  == FRound(FMulInt(scale, img.w))
        newHeight == FRound(FMulInt(scale, img.h))
    IN  Image(IF newWidth <= 0 THEN 1 ELSE newWidth,
              IF newHeight <= 0 THEN 1 ELSE newHeight)

\* A canvas width with margins between the cells only.
TotalWidthInnerMargins(c) == c.cols * c.cellWidth + (c.cols - 1) * c.margin

TotalWidth(c) == c.cols * c.cellWidth + (c.cols + 1) * c.margin

TotalHeight(c) == c.rows * c.cellHeight + (c.rows + 1) * c.margin

\* The bounds of the canvas composeGrid allocates.
CanvasBounds(c) == Rect(0, 0, TotalWidth(c), TotalHeight(c))

\* The cell of the frame at 0-based index idx.
CellRow(idx, c) == GoDiv(idx, c.cols)

CellCol(idx, c) == GoMod(idx, c.cols)

CellX(idx, c) == c.margin + CellCol(idx, c) * (c.cellWidth + c.margin)

CellY(idx, c) == c.margin + CellRow(idx, c) * (c.cellHeight + c.margin)

\* The destination rectangle composeGrid hands to draw.Draw for a frame.
FrameRect(idx, frame, c) ==
    LET offsetX == CellX(idx, c) + GoDiv(c.cellWidth - frame.w, 2)
        offsetY == CellY(idx, c) + GoDiv(c.cellHeight - frame.h, 2)
    IN  Rect(offsetX, offsetY, offsetX + frame.w, offsetY + frame.h)

\* draw.Draw clips the destination rectangle to the canvas: the pixels that
\* are written are those of the intersection (empty when it is not proper).
Empty(r) == r.x0 >= r.x1 \/ r.y0 >= r.y1

Intersect(r, s) ==
    [x0 |-> Max2(r.x0, s.x0), y0 |-> Max2(r.y0, s.y0),
     x1 |-> Min2(r.x1, s.x1), y1 |-> Min2(r.y1, s.y1)]

\* composeGrid: the canvas bounds and, per frame, its destination rectangle
\* (NoRect for a nil frame, which is skipped).
composeGrid(frames, c) ==
    [canvas |-> CanvasBounds(c),
     rects  |-> [n \in 1..Len(frames) |->
                   IF frames[n].nil THEN NoRect ELSE FrameRect(n - 1, frames[n], c)]]

-----------------------------------------------------------------------------
(* Bounds of the model *)

MaxRows == 2

MaxCols == 2

MaxCellWidth == 3

MaxCellHeight == 2

MaxMargin == 1

MaxDuration == 3

\* Direct calls: the largest frame count, duration and video dimension.
MaxCount == 9

MaxCallDuration == 8

MaxVideoDim == 8

\* --background values: #RRGGBB, a wrong length, a non-hex digit.
Backgrounds ==
    {<<"#", "2", "0", "2", "0", "2", "0">>,
     <<"#", "F", "F", "F">>,
     <<"G", "G", "H", "H", "I", "I">>}

\* --quality values around the accepted range 1..100.
Qualities == {0, 90, 101}

\* --output values: the directory part and the (lower-cased) extension.
Outputs ==
    {[dir |-> ".", ext |-> ".png"], [dir |-> "previews", ext |-> ".jpg"],
     [dir |-> ".", ext |-> ""], [dir |-> "previews", ext |-> ".gif"]}

\* What ffprobe reports as the resolution of the first video stream.
ProbeSizes == {<<0, 0>>, <<16, 9>>, <<5, 1>>}

\* The size of the frames ffmpeg decodes from the video.
FrameSizes == {<<4, 3>>, <<1, 2>>, <<5, 1>>}

\* Direct calls of sampleTimestamps, inferCellHeight and composeGrid.
SampleCalls ==
    [fn : {"sampleTimestamps"}, duration : 1..MaxCallDuration, count : 0..MaxCount]

InferCalls ==
    [fn : {"inferCellHeight"}, cellWidth : 1..(MaxCellWidth + 3),
     videoWidth : -1..MaxVideoDim, videoHeight : -1..MaxVideoDim]

GridConfigs ==
    [rows : 1..MaxRows, cols : 1..MaxCols, cellWidth : 1..MaxCellWidth,
     cellHeight : -1..MaxCellHeight, margin : 0..MaxMargin]

\* The frames composeGrid is called with: nil, or of any size up to one
\* pixel beyond the largest cell; odd and even indexes each get one of them.
CallFrames ==
    {Nil} \cup {Image(w, h) : w \in 1..(MaxCellWidth + 1), h \in 1..(MaxCellHeight + 1)}

GridCalls ==
    {[fn |-> "composeGrid", cfg |-> c,
      frames |-> [n \in 1..(c.rows * c.cols) |-> IF n % 2 = 1 THEN p[1] ELSE p[2]]] :
        c \in GridConfigs, p \in CallFrames \X CallFrames}

Calls == SampleCalls \cup InferCalls \cup GridCalls

Flags ==
    [input : {"", "sample.mp4"}, output : Outputs,
     rows : 0..MaxRows, cols : 0..MaxCols,
     cellWidth : 0..MaxCellWidth, cellHeight : -1..MaxCellHeight,
     margin : -1..MaxMargin, jpegQuality : Qualities, background : Backgrounds]

-----------------------------------------------------------------------------
(* The run of main() *)

VARIABLES
    flags,       \* the command line
    native,      \* the size of the video's decoded frames
    pc,          \* main's position: the call it makes next, "done" or "exit1";
                 \* "call" and "returned" for a direct call
    cfg,         \* gridConfig, once parseFlags has returned it
    meta,        \* videoMetadata, once probeVideo has returned it
    timestamps,  \* main's timestamps
    frames,      \* main's frames
    captured,    \* the number of captureFrame calls that have returned a frame
    canvas,      \* the bounds of the collage, once composeGrid has returned
    rects,       \* the rectangle composeGrid drew each frame into
    outFile,     \* the file at the output path: absent, empty, partial, complete
    err,         \* what exitWithError reported
    call,        \* a direct call of one of the pure functions
    ret          \* and what it returned

vars == <<flags, native, pc, cfg, meta, timestamps, frames, captured, canvas,
          rects, outFile, err, call, ret>>

NoErr == [stage |-> "", frame |-> 0, msg |-> ""]

NoCfg == [rows |-> 0, cols |-> 0, cellWidth |-> 0, cellHeight |-> 0, margin |-> 0]

NoMeta == [duration |-> 0, width |-> 0, height |-> 0]

NoCall == [fn |-> "main"]

NoFlags ==
    [input |-> "", output |-> [dir |-> ".", ext |-> ""], rows |-> 0, cols |-> 0,
     cellWidth |-> 0, cellHeight |-> 0, margin |-> 0, jpegQuality |-> 0,
     background |-> << >>]

\* Either a run of the program on some command line and video, or a direct
\* call of one of its functions.
Init ==
    /\ \/ /\ flags \in Flags
          /\ native \in FrameSizes
          /\ pc = "parseFlags"
          /\ call = NoCall
       \/ /\ flags = NoFlags
          /\ native = <<0, 0>>
          /\ pc = "call"
          /\ call \in Calls
    /\ cfg = NoCfg
    /\ meta = NoMeta
    /\ timestamps = << >>
    /\ frames = << >>
    /\ captured = 0
    /\ canvas = NoRect
    /\ rects = << >>
    /\ outFile = "absent"
    /\ err = NoErr
    /\ ret = << >>

\* exitWithError: print the error and os.Exit(1).
exitWithError(stage, frame, msg) ==
    /\ err' = [stage |-> stage, frame |-> frame, msg |-> msg]
    /\ pc' = "exit1"

\* main, lines 41-44.
ParseFlags ==
    /\ pc = "parseFlags"
    /\ IF parseFlags(flags) = ""
       THEN /\ cfg' = [rows |-> flags.rows, cols |-> flags.cols,
                       cellWidth |-> flags.cellWidth, cellHeight |-> flags.cellHeight,
                       margin |-> flags.margin]
            /\ pc' = "ensureExecutables"
            /\ err' = err
       ELSE /\ exitWithError("parseFlags", 0, parseFlags(flags))
            /\ cfg' = cfg
    /\ UNCHANGED <<flags, native, meta, timestamps, frames, captured, canvas,
                   rects, outFile, call, ret>>

\* main, lines 46-48: ffmpeg and ffprobe are on the PATH, or not.
EnsureExecutables ==
    /\ pc = "ensureExecutables"
    /\ \/ pc' = "probeVideo" /\ err' = err
       \/ exitWithError("ensureExecutables", 0, "ffmpeg or ffprobe not found")
    /\ UNCHANGED <<flags, native, cfg, meta, timestamps, frames, captured, canvas,
                   rects, outFile, call, ret>>

\* probeVideo rejecting only a negative duration.
probeVideoNegativeOnly(duration, width, height) ==
    IF duration < 0 THEN "duration missing or 0" ELSE ""

\* probeVideo, given what the two ffprobe runs printed: the error, or "".
probeVideo(duration, width, height) ==
    IF duration <= 0 THEN "duration missing or 0" ELSE ""

\* main, lines 50-53: either ffprobe run fails or prints what does not parse,
\* or they print a duration and a resolution.
ProbeVideo ==
    /\ pc = "probeVideo"
    /\ \/ /\ exitWithError("probeVideo", 0, "ffprobe failed")
          /\ meta' = meta
       \/ \E duration \in -1..MaxDuration, size \in ProbeSizes :
            IF probeVideo(duration, size[1], size[2]) = ""
            THEN /\ meta' = [duration |-> duration, width |-> size[1], height |-> size[2]]
                 /\ pc' = "prepare"
                 /\ err' = err
            ELSE /\ exitWithError("probeVideo", 0, probeVideo(duration, size[1], size[2]))
                 /\ meta' = meta
    /\ UNCHANGED <<flags, native, cfg, timestamps, frames, captured, canvas,
                   rects, outFile, call, ret>>

\* main, lines 55-61: the cell height is inferred when it was given as 0, the
\* timestamps are sampled and the frame slice is allocated (all nil).
Prepare ==
    /\ pc = "prepare"
    /\ cfg' = [cfg EXCEPT !.cellHeight =
                 IF cfg.cellHeight = 0
                 THEN inferCellHeight(cfg.cellWidth, meta.width, meta.height)
                 ELSE cfg.cellHeight]
    /\ timestamps' = sampleTimestamps(meta.duration, cfg.rows * cfg.cols)
    /\ frames' = [n \in 1..(cfg.rows * cfg.cols) |-> Nil]
    /\ pc' = "captureFrame"
    /\ UNCHANGED <<flags, native, meta, captured, canvas, rects, outFile, err,
                   call, ret>>

\* A capture loop that tolerates a failed capture: it reports it, leaves the
\* frame nil and goes on.
CaptureFrameTolerant ==
    /\ pc = "captureFrame"
    /\ captured < Len(timestamps)
    /\ \/ /\ frames' = [frames EXCEPT ![captured + 1] =
                          scaleToFit(Image(native[1], native[2]),
                                     cfg.cellWidth, cfg.cellHeight)]
          /\ err' = err
       \/ /\ err' = [stage |-> "captureFrame", frame |-> captured + 1,
                     msg |-> "capture failed"]
          /\ frames' = frames
    /\ captured' = captured + 1
    /\ pc' = IF captured + 1 = Len(timestamps) THEN "composeGrid" ELSE pc
    /\ UNCHANGED <<flags, native, cfg, meta, timestamps, canvas, rects, outFile,
                   call, ret>>

\* main, lines 63-69, one iteration: ffmpeg yields the frame at the next
\* timestamp, which is scaled into the cell, or fails, which ends the run.
CaptureFrame ==
    /\ pc = "captureFrame"
    /\ captured < Len(timestamps)
    /\ \/ /\ frames' = [frames EXCEPT ![captured + 1] =
                          scaleToFit(Image(native[1], native[2]),
                                     cfg.cellWidth, cfg.cellHeight)]
          /\ captured' = captured + 1
          /\ pc' = IF captured + 1 = Len(timestamps) THEN "composeGrid" ELSE pc
          /\ err' = err
       \/ /\ exitWithError("captureFrame", captured + 1, "capture failed")
          /\ UNCHANGED <<frames, captured>>
    /\ UNCHANGED <<flags, native, cfg, meta, timestamps, canvas, rects, outFile,
                   call, ret>>

\* main, line 71.
ComposeGrid ==
    /\ pc = "composeGrid"
    /\ canvas' = composeGrid(frames, cfg).canvas
    /\ rects' = composeGrid(frames, cfg).rects
    /\ pc' = "saveImage"
    /\ UNCHANGED <<flags, native, cfg, meta, timestamps, frames, captured,
                   outFile, err, call, ret>>

\* ensureOutputDir creates the directory unless the path has none.
NeedsDir(output) == output.dir # "."

\* The encoders saveImage knows: "" when the extension has none.
Encoder(ext) ==
    IF ext \in {".jpg", ".jpeg"} THEN "jpeg"
    ELSE IF ext \in {".png", ""} THEN "png"
    ELSE ""

\* main, lines 73-75, and saveImage: the directory is made, the file is
\* created (and truncated), and only then is the extension looked at.
SaveImage ==
    /\ pc = "saveImage"
    /\ \/ /\ NeedsDir(flags.output)
          /\ exitWithError("saveImage", 0, "mkdir failed")
          /\ outFile' = outFile
       \/ /\ exitWithError("saveImage", 0, "create failed")
          /\ outFile' = outFile
       \/ /\ Encoder(flags.output.ext) # ""
          /\ outFile' = "complete"
          /\ pc' = "done"
          /\ err' = err
       \/ /\ Encoder(flags.output.ext) # ""
          /\ outFile' = "partial"
          /\ exitWithError("saveImage", 0, "encode failed")
       \/ /\ Encoder(flags.output.ext) = ""
          /\ outFile' = "empty"
          /\ exitWithError("saveImage", 0, "unsupported format")
    /\ UNCHANGED <<flags, native, cfg, meta, timestamps, frames, captured, canvas,
                   rects, call, ret>>

\* A direct call returns.
Return(value) ==
    /\ ret' = value
    /\ pc' = "returned"
    /\ UNCHANGED <<flags, native, cfg, meta, timestamps, frames, captured, canvas,
                   rects, outFile, err, call>>

CallSampleTimestamps ==
    /\ pc = "call"
    /\ call.fn = "sampleTimestamps"
    /\ Return(sampleTimestamps(call.duration, call.count))

CallInferCellHeight ==
    /\ pc = "call"
    /\ call.fn = "inferCellHeight"
    /\ Return(inferCellHeight(call.cellWidth, call.videoWidth, call.videoHeight))

CallComposeGrid ==
    /\ pc = "call"
    /\ call.fn = "composeGrid"
    /\ Return(composeGrid(call.frames, call.cfg))

Next ==
    \/ ParseFlags
    \/ EnsureExecutables
    \/ ProbeVideo
    \/ Prepare
    \/ CaptureFrame
    \/ ComposeGrid
    \/ SaveImage
    \/ CallSampleTimestamps
    \/ CallInferCellHeight
    \/ CallComposeGrid

Spec == Init /\ [][Next]_vars

-----------------------------------------------------------------------------
(* The claims *)

InMain == call = NoCall

Returned(fn) == pc = "returned" /\ call.fn = fn

\* C1: no file is at the output path when a run has ended in an error
\* (stated as claimed; saveImage creates the file before it can fail).
NoFileOnFailure == pc = "exit1" => outFile = "absent"

\* The configurations C2 calls invalid.
InvalidConfig(f) ==
    \/ f.rows <= 0
    \/ f.cols <= 0
    \/ f.cellWidth <= 0
    \/ f.cellHeight < 0
    \/ f.margin < 0
    \/ f.jpegQuality < 1
    \/ f.jpegQuality > 100
    \/ parseHexColor(f.background).err # ""
    \/ f.output.ext \notin {".png", ".jpg", ".jpeg", ""}

\* probeVideo has been executed (it returned, or it failed).
ProbeExecuted ==
    \/ pc \in {"prepare", "captureFrame", "composeGrid", "saveImage", "done"}
    \/ pc = "exit1" /\ err.stage \in {"probeVideo", "captureFrame", "saveImage"}

\* C2: with an invalid configuration value the run fails before probeVideo,
\* captureFrame or composeGrid is executed and before any file is created
\* (stated as claimed; parseFlags accepts a negative cell height and any
\* extension).
ConfigErrorsBeforeWork ==
    (InMain /\ InvalidConfig(flags)) =>
        /\ ~ProbeExecuted
        /\ captured = 0
        /\ rects = << >>
        /\ outFile = "absent"

\* C3: a failed capture of the frame at 0-based index i ends the run there:
\* the error names frame i + 1, the frames before it are the only ones
\* captured, nothing is composed and nothing is saved.
CaptureFailureIsFatal ==
    err.stage = "captureFrame" =>
        /\ pc = "exit1"
        /\ err.frame = captured + 1
        /\ err.frame \in 1..Len(timestamps)
        /\ \A n \in 1..Len(frames) : frames[n].nil <=> n >= err.frame
        /\ canvas = NoRect
        /\ rects = << >>
        /\ outFile = "absent"

\* C3's case: the second capture failed after the first succeeded.
CaptureFailedAtSecond ==
    pc = "exit1" /\ err.stage = "captureFrame" /\ err.frame = 2 /\ captured = 1

\* The timestamps as the closed form has them, k*duration/(count+1) being
\* evaluated in float64.
ClosedForm(duration, count, ts) ==
    /\ Len(ts) = count
    /\ \A k \in 1..count : ts[k] = FDivInt(k * duration, count + 1)
    /\ \A k \in 1..count : FLess(FZero, ts[k]) /\ FLess(ts[k], FFromInt(duration))
    /\ \A k \in 1..(count - 1) : FLess(ts[k], ts[k + 1])
    /\ count = 1 => ts = <<FDivInt(duration, 2)>>

\* C4, as claimed: the k-th timestamp is k*duration/(count+1), the sequence
\* is strictly increasing and strictly inside (0, duration), and a count of 1
\* gives duration/2.
SampleTimestampsClosedForm ==
    (Returned("sampleTimestamps") /\ call.count >= 1) =>
        ClosedForm(call.duration, call.count, ret)

\* The timestamps as the code rounds them: the quotient once, then each
\* product.
RoundedForm(duration, count, ts) ==
    /\ Len(ts) = count
    /\ count >= 2 =>
         \A k \in 1..count : ts[k] = FMulInt(FDivInt(duration, count + 1), k)
    /\ \A k \in 1..count : FLess(FZero, ts[k]) /\ FLess(ts[k], FFromInt(duration))
    /\ \A k \in 1..(count - 1) : FLess(ts[k], ts[k + 1])
    /\ count = 1 => ts = <<FDivInt(duration, 2)>>

\* C4, amended: the k-th timestamp is the float64 product of k and the float64
\* quotient duration/(count+1), the sequence is strictly increasing and
\* strictly inside (0, duration), and a count of 1 gives duration/2.
SampleTimestampsRounded ==
    /\ (Returned("sampleTimestamps") /\ call.count >= 1) =>
           RoundedForm(call.duration, call.count, ret)
    /\ (InMain /\ timestamps # << >>) =>
           RoundedForm(meta.duration, cfg.rows * cfg.cols, timestamps)

\* C4's case: a timestamp that differs from the float64 value of
\* k*duration/(count+1): 0.2*3 is 0.6000000000000001, 3.0/5 is 0.6.
SampleRoundingShows ==
    /\ Returned("sampleTimestamps")
    /\ call.duration = 1
    /\ call.count = 4
    /\ ret[3] # FDivInt(3, 5)
    /\ FLess(FDivInt(3, 5), ret[3])

\* C5, as claimed: every fitted frame is no wider and no higher than the cell.
FittedFramesFitCell ==
    InMain =>
        \A n \in 1..Len(frames) :
            ~frames[n].nil =>
                frames[n].w <= cfg.cellWidth /\ frames[n].h <= cfg.cellHeight

\* p/q rounded to the nearest integer (halves up), for p >= 0 and q > 0.
RoundDiv(p, q) == (2 * p + q) \div (2 * q)

\* The cell height C6 claims.
ClaimedCellHeight(cellWidth, videoWidth, videoHeight) ==
    IF /\ videoWidth > 0
       /\ videoHeight > 0
       /\ RoundDiv(cellWidth * videoHeight, videoWidth) > 0
    THEN RoundDiv(cellWidth * videoHeight, videoWidth)
    ELSE RoundDiv(cellWidth * 9, 16)

\* C6, as claimed: inferCellHeight returns round(cellWidth*videoHeight/
\* videoWidth) when that is positive and the source size is, and otherwise
\* round(cellWidth*9/16).
InferCellHeightRounds ==
    Returned("inferCellHeight") =>
        ret = ClaimedCellHeight(call.cellWidth, call.videoWidth, call.videoHeight)

\* d/2 truncated toward zero, written out.
TruncHalf(d) == IF d >= 0 THEN d \div 2 ELSE -((-d) \div 2)

\* What C7 says of the rectangle r drawn for the frame at 0-based index i.
PlacedAsClaimed(i, frame, c, r) ==
    LET row   == i \div c.cols
        col   == i % c.cols
        cellX == c.margin + col * (c.cellWidth + c.margin)
        cellY == c.margin + row * (c.cellHeight + c.margin)
        left  == r.x0 - cellX
        right == cellX + c.cellWidth - r.x1
        above == r.y0 - cellY
        below == cellY + c.cellHeight - r.y1
    IN  /\ r.x0 = cellX + TruncHalf(c.cellWidth - frame.w)
        /\ r.y0 = cellY + TruncHalf(c.cellHeight - frame.h)
        /\ r.x1 - r.x0 = frame.w
        /\ r.y1 - r.y0 = frame.h
        /\ frame.w = c.cellWidth => left = 0
        /\ frame.h = c.cellHeight => above = 0
        /\ (c.cellWidth - frame.w) % 2 = 1 => Abs(right) = Abs(left) + 1
        /\ (c.cellHeight - frame.h) % 2 = 1 => Abs(below) = Abs(above) + 1
        /\ (c.cellWidth - frame.w) % 2 = 0 => right = left
        /\ (c.cellHeight - frame.h) % 2 = 0 => below = above

AllPlacedAsClaimed(fs, c, rs) ==
    /\ Len(rs) = Len(fs)
    /\ \A n \in 1..Len(fs) :
         IF fs[n].nil THEN rs[n] = NoRect ELSE PlacedAsClaimed(n - 1, fs[n], c, rs[n])

\* C7: composeGrid draws the non-nil frame at index i in row i/cols, column
\* i%cols, centred in its cell with the truncated halves of the slack as
\* offsets: none for a frame of the cell's size, and an odd slack leaves the
\* frame one pixel nearer the cell's top-left corner.
GridPlacement ==
    /\ Returned("composeGrid") => AllPlacedAsClaimed(call.frames, call.cfg, ret.rects)
    /\ (InMain /\ rects # << >>) => AllPlacedAsClaimed(frames, cfg, rects)

\* C7's case: a 2x2 grid whose third frame has the cell's size and whose
\* fourth, in row 1 and column 1, is one pixel narrower than the cell.
GridPlacedOddSlack ==
    /\ Returned("composeGrid")
    /\ call.cfg.rows = 2
    /\ call.cfg.cols = 2
    /\ call.frames[3] = Image(call.cfg.cellWidth, call.cfg.cellHeight)
    /\ call.frames[4] = Image(call.cfg.cellWidth - 1, call.cfg.cellHeight)
    /\ ret.rects[4].x0 > ret.rects[3].x1
    /\ ret.rects[4].y0 = ret.rects[3].y0

ValidGridSpec(c) ==
    c.rows > 0 /\ c.cols > 0 /\ c.cellWidth > 0 /\ c.cellHeight > 0 /\ c.margin >= 0

CanvasAsClaimed(c, b) ==
    /\ b.x0 = 0
    /\ b.y0 = 0
    /\ Dx(b) = c.cols * c.cellWidth + (c.cols + 1) * c.margin
    /\ Dy(b) = c.rows * c.cellHeight + (c.rows + 1) * c.margin

\* C8: for a valid GridSpec the canvas of composeGrid is exactly
\* cols*cellWidth + (cols+1)*margin wide and rows*cellHeight + (rows+1)*margin
\* high, whatever the frames (3x3 cells of 100x56 with margin 5: 320x188).
CanvasSize ==
    /\ (Returned("composeGrid") /\ ValidGridSpec(call.cfg)) =>
           CanvasAsClaimed(call.cfg, ret.canvas)
    /\ (InMain /\ rects # << >> /\ ValidGridSpec(cfg)) => CanvasAsClaimed(cfg, canvas)
    /\ Returned("composeGrid") =>
           composeGrid(call.frames,
                       [rows |-> 3, cols |-> 3, cellWidth |-> 100,
                        cellHeight |-> 56, margin |-> 5]).canvas
             = Rect(0, 0, 320, 188)

\* C8's case: a valid 2x2 grid with margins whose odd frames are nil and whose
\* even frames are larger than the cell.
CanvasWithNilFrames ==
    /\ Returned("composeGrid")
    /\ ValidGridSpec(call.cfg)
    /\ call.cfg.rows = 2
    /\ call.cfg.cols = 2
    /\ call.cfg.margin = 1
    /\ call.frames[1].nil
    /\ ~call.frames[2].nil
    /\ call.frames[2].w > call.cfg.cellWidth

ClaimedCell(n, c) ==
    LET x == c.margin + ((n - 1) % c.cols) * (c.cellWidth + c.margin)
        y == c.margin + ((n - 1) \div c.cols) * (c.cellHeight + c.margin)
    IN  [x0 |-> x, y0 |-> y, x1 |-> x + c.cellWidth, y1 |-> y + c.cellHeight]

Inside(r, s) ==
    Empty(r) \/ (r.x0 >= s.x0 /\ r.y0 >= s.y0 /\ r.x1 <= s.x1 /\ r.y1 <= s.y1)

Overlap(r, s) == ~Empty(Intersect(r, s))

\* C10, as claimed: in a run that has composed the grid, the pixels drawn for
\* each frame lie inside the frame's cell, each cell lies inside the canvas at
\* least margin pixels from its edges, and no two frames' pixels overlap.
FramesStayInCells ==
    (InMain /\ rects # << >>) =>
        \A n \in 1..Len(rects) :
            /\ Inside(Intersect(rects[n], canvas), ClaimedCell(n, cfg))
            /\ ~Empty(ClaimedCell(n, cfg))
            /\ Inside(ClaimedCell(n, cfg),
                      [x0 |-> canvas.x0 + cfg.margin, y0 |-> canvas.y0 + cfg.margin,
                       x1 |-> canvas.x1 - cfg.margin, y1 |-> canvas.y1 - cfg.margin])
            /\ \A m \in 1..Len(rects) :
                 m # n => ~Overlap(Intersect(rects[n], canvas),
                                   Intersect(rects[m], canvas))

=============================================================================
